---- MODULE Spec2Model ----
(***************************************************************************)
(* A model of nifti-processing: resampling of a 3-D volume from one voxel  *)
(* grid onto another (src/src/lib.rs) with the NearestNeighbor and         *)
(* TriLinear samplers (src/src/sampler/).                                  *)
(*                                                                         *)
(* The coordinate type T is f32 (examples/resample_to_output.rs:50,60).    *)
(* An f32 is modelled by its exact value, the pair <<m, e>> standing for   *)
(* m * 2^e with m odd (zero is <<0, 0>>), and every arithmetic operation   *)
(* rounds its exact result to MantBits significant bits, ties to even, as  *)
(* IEEE-754 does.  The inputs are small enough that no exponent leaves the *)
(* f32 range, so no overflow to infinity or subnormal is involved.         *)
(* The element type U is either f32 (the examples) or a signed integer.    *)
(***************************************************************************)
EXTENDS Integers, Sequences, FiniteSets, TLC

\* ------------------------------------------------------------------------
\* f32 arithmetic
\* ------------------------------------------------------------------------

\* significand width of an f32
MantBits == 24

\* the f32 NaN: the one pair that is not a normal form (m = 0 has e = 0)
NaN == <<0, 1>>

Zero == <<0, 0>>

One == <<1, 0>>

IsNaN(a) == a = NaN

Abs(n) == IF n < 0 THEN -n ELSE n

Sgn(n) == IF n < 0 THEN -1 ELSE 1

Min2(a, b) == IF a < b THEN a ELSE b

RECURSIVE BitLen(_)
BitLen(n) == IF n = 0 THEN 0 ELSE 1 + BitLen(n \div 2)

\* the normal form of m * 2^e: m odd, or <<0, 0>>
RECURSIVE Norm(_, _)
Norm(m, e) ==
  IF m = 0 THEN Zero
  ELSE IF Abs(m) % 2 = 0 THEN Norm(Sgn(m) * (Abs(m) \div 2), e + 1)
  ELSE <<m, e>>

\* the f32 nearest to the exact value m * 2^e, ties to even
Round(m, e) ==
  LET a == Abs(m)
      k == BitLen(a) - MantBits
  IN IF k <= 0 THEN Norm(m, e)
     ELSE LET q    == a \div (2^k)
              r    == a % (2^k)
              half == 2^(k - 1)
              up   == (r > half) \/ (r = half /\ q % 2 = 1)
          IN Norm(Sgn(m) * (IF up THEN q + 1 ELSE q), e + k)

\* an integer as an f32 (usize as T, i32 as T)
F(n) == Round(n, 0)

\* n / 2^k as an f32, for writing inputs such as 1/2
Frac(n, k) == Round(n, -k)

FNeg(a) == IF IsNaN(a) THEN NaN ELSE <<-a[1], a[2]>>

\* the exact sum when it fits the integers of the model; otherwise the
\* operand of smaller magnitude is cut to the bits that can matter and a
\* sticky bit stands for those cut off, and the result is rounded once
FAdd(a, b) ==
  IF IsNaN(a) \/ IsNaN(b) THEN NaN
  ELSE IF a[1] = 0 THEN b
  ELSE IF b[1] = 0 THEN a
  ELSE LET hi == IF a[2] >= b[2] THEN a ELSE b
           lo == IF a[2] >= b[2] THEN b ELSE a
           g  == hi[2] - lo[2]
       IN IF BitLen(Abs(hi[1])) + g <= 29
          THEN Round(hi[1] * 2^g + lo[1], lo[2])
          ELSE LET sh == 29 - BitLen(Abs(hi[1]))
                   c  == 2^(g - sh)
                   bq == Abs(lo[1]) \div c
                   st == IF Abs(lo[1]) % c = 0 THEN 0 ELSE 1
               IN Round(2 * (hi[1] * 2^sh + Sgn(lo[1]) * bq) + Sgn(lo[1]) * st,
                        hi[2] - sh - 1)

FSub(a, b) == FAdd(a, FNeg(b))

\* the product of two significands below 2^MantBits by 12-bit halves, as
\* H * 2^24 + L, cut to 30 bits with a sticky bit and rounded once
WideMul(x, y, e) ==
  LET B   == 4096
      x1  == x \div B
      x0  == x % B
      y1  == y \div B
      y0  == y % B
      lo  == x0 * y0
      t   == x1 * y0 + x0 * y1 + (lo \div B)
      H   == x1 * y1 + (t \div B)
      L   == (t % B) * B + (lo % B)
      s   == Min2(24, 29 - BitLen(H))
      c   == 2^(24 - s)
      V   == 2 * (H * 2^s + (L \div c)) + (IF L % c = 0 THEN 0 ELSE 1)
  IN Round(V, e + 23 - s)

FMul(a, b) ==
  IF IsNaN(a) \/ IsNaN(b) THEN NaN
  ELSE IF BitLen(Abs(a[1])) + BitLen(Abs(b[1])) <= 30
  THEN Round(a[1] * b[1], a[2] + b[2])
  ELSE LET r == WideMul(Abs(a[1]), Abs(b[1]), a[2] + b[2])
       IN <<Sgn(a[1]) * Sgn(b[1]) * r[1], r[2]>>

\* floor(n * 2^k / d) and the remainder, six quotient bits at a time (a
\* remainder is below 2^MantBits, so 64 times it fits the model's integers)
RECURSIVE LongDiv(_, _, _)
LongDiv(n, d, k) ==
  IF k = 0 THEN <<n \div d, n % d>>
  ELSE LET s == IF k >= 6 THEN 6 ELSE k
           p == LongDiv(n, d, k - s)
           c == p[2] * 2^s
       IN <<p[1] * 2^s + (c \div d), c % d>>

\* a / b for b # 0: the quotient is developed to MantBits + 2 or + 3 bits,
\* a sticky bit stands for the remainder, and the result is rounded once
FDiv(a, b) ==
  IF IsNaN(a) \/ IsNaN(b) THEN NaN
  ELSE IF a[1] = 0 THEN Zero
  ELSE LET n  == Abs(a[1])
           d  == Abs(b[1])
           k  == MantBits + 2 - BitLen(n) + BitLen(d)
           qr == LongDiv(n, d, k)
           s  == Sgn(a[1]) * Sgn(b[1])
       IN Round(s * (2 * qr[1] + (IF qr[2] = 0 THEN 0 ELSE 1)),
                a[2] - b[2] - k - 1)

\* x < y for two positive f32: by the position of the leading bit, and by
\* the aligned significands when these agree
PosLt(x, y) ==
  LET tx == BitLen(x[1]) + x[2]
      ty == BitLen(y[1]) + y[2]
      e  == Min2(x[2], y[2])
  IN IF tx # ty THEN tx < ty
     ELSE x[1] * 2^(x[2] - e) < y[1] * 2^(y[2] - e)

\* a < b, false when either is NaN
FLt(a, b) ==
  /\ ~IsNaN(a)
  /\ ~IsNaN(b)
  /\ IF a[1] <= 0 /\ b[1] <= 0
     THEN a[1] # b[1] /\ (b[1] = 0 \/ (a[1] # 0 /\ PosLt(FNeg(b), FNeg(a))))
     ELSE IF a[1] <= 0 THEN TRUE
     ELSE IF b[1] <= 0 THEN FALSE
     ELSE PosLt(a, b)

FGt(a, b) == FLt(b, a)

\* the largest integer <= m * 2^e, as an integer, for |m * 2^e| < 2^MantBits
FloorInt(a) ==
  IF a[2] >= 0 THEN a[1] * 2^a[2]
  ELSE IF -a[2] >= MantBits + 1 THEN (IF a[1] >= 0 THEN 0 ELSE -1)
  ELSE LET p == 2^(-a[2])
       IN IF a[1] >= 0 THEN a[1] \div p ELSE -((-a[1] + p - 1) \div p)

\* the smallest integer >= m * 2^e, as an integer
CeilInt(a) == -FloorInt(<<-a[1], a[2]>>)

\* an f32 with e >= 0 is an integer already
FFloor(a) == IF IsNaN(a) \/ a[2] >= 0 THEN a ELSE F(FloorInt(a))

FCeil(a) == IF IsNaN(a) \/ a[2] >= 0 THEN a ELSE F(CeilInt(a))

\* `x as usize`: truncation toward zero, saturating at 0; NaN gives 0.  A
\* value of 2^MantBits or more is far beyond every dimension of the model
\* and is given as 2^MantBits
AsUsize(a) ==
  IF IsNaN(a) \/ a[1] <= 0 THEN 0
  ELSE IF BitLen(a[1]) + a[2] > MantBits THEN 2^MantBits
  ELSE FloorInt(a)

\* `x as i32`: truncation toward zero; NaN gives 0; cut at 2^MantBits in
\* magnitude as AsUsize is
AsInt(a) ==
  IF IsNaN(a) THEN 0
  ELSE IF BitLen(Abs(a[1])) + a[2] > MantBits THEN Sgn(a[1]) * 2^MantBits
  ELSE IF a[1] >= 0 THEN FloorInt(a) ELSE CeilInt(a)

\* nalgebra::clamp(x, lo, hi): if x > hi { hi } else if x < lo { lo } else { x }
Clamp(x, lo, hi) ==
  IF FGt(x, hi) THEN hi ELSE IF FLt(x, lo) THEN lo ELSE x

\* ------------------------------------------------------------------------
\* ndarray arrays: a shape and the elements in logical (row-major) order
\* ------------------------------------------------------------------------

RECURSIVE Prod(_)
Prod(s) == IF s = <<>> THEN 1 ELSE Head(s) * Prod(Tail(s))

\* the row-major offset of index idx in an array of shape sh
RECURSIVE Offset(_, _)
Offset(sh, idx) ==
  IF sh = <<>> THEN 0
  ELSE Head(idx) * Prod(Tail(sh)) + Offset(Tail(sh), Tail(idx))

InBounds(sh, idx) ==
  /\ Len(idx) = Len(sh)
  /\ \A a \in 1..Len(sh) : idx[a] >= 0 /\ idx[a] < sh[a]

\* Array::get(idx): <<v>> for Some(v), <<>> for None
ArrGet(arr, idx) ==
  IF InBounds(arr.shape, idx)
  THEN <<arr.data[Offset(arr.shape, idx) + 1]>>
  ELSE <<>>

\* the index of the p-th element (p from 0) of shape sh in logical order
RECURSIVE Unravel(_, _)
Unravel(sh, p) ==
  IF sh = <<>> THEN <<>>
  ELSE <<p \div Prod(Tail(sh))>> \o Unravel(Tail(sh), p % Prod(Tail(sh)))

\* from_shape_vec with the length check lost: the values are cut or padded
\* with zeros to the shape
FromShapeVecLenient(shape, v) ==
  [ok |-> TRUE,
   val |-> [shape |-> shape,
            data  |-> [p \in 1..Prod(shape) |->
                         IF p <= Len(v) THEN v[p] ELSE Zero]]]

\* Array::from_shape_vec(shape, v): row-major, Err unless the lengths agree
FromShapeVec(shape, v) ==
  IF Len(v) = Prod(shape)
  THEN [ok |-> TRUE, val |-> [shape |-> shape, data |-> v]]
  ELSE [ok |-> FALSE, err |-> "number of elements is not compatible with out_shape shape"]

\* ArrayBase::to_shape(shape).to_owned(): the elements in logical order,
\* laid out under the new shape
ToShape(arr, shape) ==
  [shape |-> shape,
   data  |-> [p \in 1..Prod(arr.shape) |->
                ArrGet(arr, Unravel(arr.shape, p - 1))[1]]]

\* ------------------------------------------------------------------------
\* nalgebra matrices.  A MatrixXx3 is its row count and its column-major
\* storage; a Matrix4, Matrix3 or Vector3 is a tuple of rows / entries.
\* ------------------------------------------------------------------------

\* MatrixXx3::from_column_slice in the place of from_row_slice: the slice is
\* taken as the storage itself
FromColumnSlice(s) == [n |-> Len(s) \div 3, d |-> s]

\* MatrixXx3::from_row_slice
FromRowSlice(s) ==
  LET n == Len(s) \div 3
  IN [n |-> n,
      d |-> [q \in 1..(3 * n) |->
               LET c == (q - 1) \div n
                   r == (q - 1) % n
               IN s[r * 3 + c + 1]]]

\* entry (r, c), both from 0
At(M, r, c) == M.d[c * M.n + r + 1]

\* MatrixXx3::from_iterator(m.nrows(), m.iter().map(f)): iter() walks the
\* storage column by column and from_iterator fills it column by column
MapUsizeToT(M) == [n |-> M.n, d |-> [q \in 1..Len(M.d) |-> F(M.d[q])]]

\* the coordinates rounded down instead of up
MapCeilAsFloor(M) == [n |-> M.n, d |-> [q \in 1..Len(M.d) |-> FFloor(M.d[q])]]

MapCeil(M) == [n |-> M.n, d |-> [q \in 1..Len(M.d) |-> FCeil(M.d[q])]]

MapFloor(M) == [n |-> M.n, d |-> [q \in 1..Len(M.d) |-> FFloor(M.d[q])]]

MapAddOne(M) == [n |-> M.n, d |-> [q \in 1..Len(M.d) |-> FAdd(M.d[q], One)]]

MapAsUsize(M) == [n |-> M.n, d |-> [q \in 1..Len(M.d) |-> AsUsize(M.d[q])]]

\* ------------------------------------------------------------------------
\* src/src/lib.rs
\* ------------------------------------------------------------------------

\* get_corners with the second row's entry put on the wrong axis
get_corners_misplaced(is) ==
  FromRowSlice(<<
    0,         0,         0,
    0,         is[3] - 1, 0,
    0,         is[2] - 1, 0,
    0,         is[2] - 1, is[3] - 1,
    is[1] - 1, 0,         0,
    is[1] - 1, 0,         is[3] - 1,
    is[1] - 1, is[2] - 1, 0,
    is[1] - 1, is[2] - 1, is[3] - 1 >>)

get_corners(is) ==
  FromRowSlice(<<
    0,         0,         0,
    0,         0,         is[3] - 1,
    0,         is[2] - 1, 0,
    0,         is[2] - 1, is[3] - 1,
    is[1] - 1, 0,         0,
    is[1] - 1, 0,         is[3] - 1,
    is[1] - 1, is[2] - 1, 0,
    is[1] - 1, is[2] - 1, is[3] - 1 >>)

\* (linear part, translation) of a 4x4 affine
afftra_to_aff_tra(affine) ==
  << [r \in 1..3 |-> [c \in 1..3 |-> affine[r][c]]],
     [r \in 1..3 |-> affine[r][4]] >>

aff_tra_to_afftra(aff, tra) ==
  [r \in 1..4 |-> [c \in 1..4 |->
     IF r <= 3 /\ c <= 3 THEN aff[r][c]
     ELSE IF r <= 3 THEN tra[r]
     ELSE IF c = 4 THEN One ELSE Zero]]

\* Matrix3::from_diagonal
FromDiagonal(v) ==
  [r \in 1..3 |-> [c \in 1..3 |-> IF r = c THEN v[r] ELSE Zero]]

\* apply_affine with the transpose forgotten: pts * aff
apply_affine_untransposed(affine, pts) ==
  LET at  == afftra_to_aff_tra(affine)
      aff == at[1]
      tra == at[2]
  IN [n |-> pts.n,
      d |-> [q \in 1..(3 * pts.n) |->
               LET j == (q - 1) \div pts.n
                   i == (q - 1) % pts.n
                   r == FAdd(FAdd(FMul(At(pts, i, 0), aff[1][j + 1]),
                                  FMul(At(pts, i, 1), aff[2][j + 1])),
                             FMul(At(pts, i, 2), aff[3][j + 1]))
               IN FAdd(r, tra[j + 1])]]

\* pts * aff.transpose(), then the translation added to every row; a product
\* entry is accumulated over k = 0, 1, 2 in this order
apply_affine(affine, pts) ==
  LET at  == afftra_to_aff_tra(affine)
      aff == at[1]
      tra == at[2]
  IN [n |-> pts.n,
      d |-> [q \in 1..(3 * pts.n) |->
               LET j == (q - 1) \div pts.n
                   i == (q - 1) % pts.n
                   r == FAdd(FAdd(FMul(At(pts, i, 0), aff[j + 1][1]),
                                  FMul(At(pts, i, 1), aff[j + 1][2])),
                             FMul(At(pts, i, 2), aff[j + 1][3]))
               IN FAdd(r, tra[j + 1])]]

\* column c (from 0) of a MatrixXx3, as a sequence
Column(M, c) == [r \in 1..M.n |-> At(M, r - 1, c)]

\* the minimum / maximum entry of a non-empty sequence of f32
RECURSIVE SeqMin(_)
SeqMin(v) ==
  IF Len(v) = 1 THEN v[1]
  ELSE LET m == SeqMin(Tail(v)) IN IF FLt(m, v[1]) THEN m ELSE v[1]

RECURSIVE SeqMax(_)
SeqMax(v) ==
  IF Len(v) = 1 THEN v[1]
  ELSE LET m == SeqMax(Tail(v)) IN IF FGt(m, v[1]) THEN m ELSE v[1]

\* the per-axis minimum / maximum over the rows of out_corners
ColumnMins(out_corners) == [a \in 1..3 |-> SeqMin(Column(out_corners, a - 1))]

ColumnMaxs(out_corners) == [a \in 1..3 |-> SeqMax(Column(out_corners, a - 1))]

\* <<out_shape, out_affine>> from the bounds of the transformed corners
GridOfBounds(out_mn, out_mx, voxel_sizes) ==
  << [a \in 1..3 |->
        AsUsize(FAdd(FCeil(FDiv(FSub(out_mx[a], out_mn[a]), voxel_sizes[a])),
                     One))],
     aff_tra_to_afftra(FromDiagonal(voxel_sizes), out_mn) >>

\* the output-aligned shape and affine: <<out_shape, out_affine>>
vox2out_vox(in_shape, in_affine, voxel_sizes) ==
  GridOfBounds(
    ColumnMins(apply_affine(in_affine, MapUsizeToT(get_corners(in_shape)))),
    ColumnMaxs(apply_affine(in_affine, MapUsizeToT(get_corners(in_shape)))),
    voxel_sizes)

\* nalgebra's do_inverse4 works on the column-major storage m[0..15] of the
\* matrix.  Entry q of do_inverse4_terms lists the six signed triple
\* products <<sign, i, j, k>> = sign * m[i] * m[j] * m[k] whose sum, taken
\* from left to right, is out[q - 1].
do_inverse4_terms ==
  << << << 1,  5, 10, 15>>, <<-1,  5, 11, 14>>, <<-1,  9,  6, 15>>,
        << 1,  9,  7, 14>>, << 1, 13,  6, 11>>, <<-1, 13,  7, 10>> >>,
     << <<-1,  1, 10, 15>>, << 1,  1, 11, 14>>, << 1,  9,  2, 15>>,
        <<-1,  9,  3, 14>>, <<-1, 13,  2, 11>>, << 1, 13,  3, 10>> >>,
     << << 1,  1,  6, 15>>, <<-1,  1,  7, 14>>, <<-1,  5,  2, 15>>,
        << 1,  5,  3, 14>>, << 1, 13,  2,  7>>, <<-1, 13,  3,  6>> >>,
     << <<-1,  1,  6, 11>>, << 1,  1,  7, 10>>, << 1,  5,  2, 11>>,
        <<-1,  5,  3, 10>>, <<-1,  9,  2,  7>>, << 1,  9,  3,  6>> >>,
     << <<-1,  4, 10, 15>>, << 1,  4, 11, 14>>, << 1,  8,  6, 15>>,
        <<-1,  8,  7, 14>>, <<-1, 12,  6, 11>>, << 1, 12,  7, 10>> >>,
     << << 1,  0, 10, 15>>, <<-1,  0, 11, 14>>, <<-1,  8,  2, 15>>,
        << 1,  8,  3, 14>>, << 1, 12,  2, 11>>, <<-1, 12,  3, 10>> >>,
     << <<-1,  0,  6, 15>>, << 1,  0,  7, 14>>, << 1,  4,  2, 15>>,
        <<-1,  4,  3, 14>>, <<-1, 12,  2,  7>>, << 1, 12,  3,  6>> >>,
     << << 1,  0,  6, 11>>, <<-1,  0,  7, 10>>, <<-1,  4,  2, 11>>,
        << 1,  4,  3, 10>>, << 1,  8,  2,  7>>, <<-1,  8,  3,  6>> >>,
     << << 1,  4,  9, 15>>, <<-1,  4, 11, 13>>, <<-1,  8,  5, 15>>,
        << 1,  8,  7, 13>>, << 1, 12,  5, 11>>, <<-1, 12,  7,  9>> >>,
     << <<-1,  0,  9, 15>>, << 1,  0, 11, 13>>, << 1,  8,  1, 15>>,
        <<-1,  8,  3, 13>>, <<-1, 12,  1, 11>>, << 1, 12,  3,  9>> >>,
     << << 1,  0,  5, 15>>, <<-1,  0,  7, 13>>, <<-1,  4,  1, 15>>,
        << 1,  4,  3, 13>>, << 1, 12,  1,  7>>, <<-1, 12,  3,  5>> >>,
     << <<-1,  0,  5, 11>>, << 1,  0,  7,  9>>, << 1,  4,  1, 11>>,
        <<-1,  4,  3,  9>>, <<-1,  8,  1,  7>>, << 1,  8,  3,  5>> >>,
     << <<-1,  4,  9, 14>>, << 1,  4, 10, 13>>, << 1,  8,  5, 14>>,
        <<-1,  8,  6, 13>>, <<-1, 12,  5, 10>>, << 1, 12,  6,  9>> >>,
     << << 1,  0,  9, 14>>, <<-1,  0, 10, 13>>, <<-1,  8,  1, 14>>,
        << 1,  8,  2, 13>>, << 1, 12,  1, 10>>, <<-1, 12,  2,  9>> >>,
     << <<-1,  0,  5, 14>>, << 1,  0,  6, 13>>, << 1,  4,  1, 14>>,
        <<-1,  4,  2, 13>>, <<-1, 12,  1,  6>>, << 1, 12,  2,  5>> >>,
     << << 1,  0,  5, 10>>, <<-1,  0,  6,  9>>, <<-1,  4,  1, 10>>,
        << 1,  4,  2,  9>>, << 1,  8,  1,  6>>, <<-1,  8,  2,  5>> >> >>

\* one signed triple product
TripleProduct(m, t) ==
  LET p == FMul(FMul(m[t[2] + 1], m[t[3] + 1]), m[t[4] + 1])
  IN IF t[1] < 0 THEN FNeg(p) ELSE p

\* the sum of the first n signed triple products of ts, from left to right
RECURSIVE SumTerms(_, _, _)
SumTerms(m, ts, n) ==
  IF n = 1 THEN TripleProduct(m, ts[1])
  ELSE FAdd(SumTerms(m, ts, n - 1), TripleProduct(m, ts[n]))

\* the column-major storage m[0..15] of a Matrix4
ColumnMajor(A) == [q \in 1..16 |-> A[((q - 1) % 4) + 1][((q - 1) \div 4) + 1]]

\* do_inverse4's array out[0..15] before it is scaled
Cofactors(m) == [q \in 1..16 |-> SumTerms(m, do_inverse4_terms[q], 6)]

\* det = m[0]*out[0] + m[1]*out[4] + m[2]*out[8] + m[3]*out[12]
Determinant(m, out) ==
  FAdd(FAdd(FAdd(FMul(m[1], out[1]), FMul(m[2], out[5])),
            FMul(m[3], out[9])), FMul(m[4], out[13]))

\* out scaled by inv_det, as a matrix
ScaledBy(out, inv_det) ==
  [r \in 1..4 |-> [c \in 1..4 |-> FMul(out[(c - 1) * 4 + r], inv_det)]]

\* do_inverse4: false (<<>>) when det is zero, and otherwise out * (1 / det)
do_inverse4(out, det) ==
  IF det = Zero THEN <<>> ELSE << ScaledBy(out, FDiv(One, det)) >>

\* Matrix4::try_inverse: None (<<>>) or Some(inverse) (<<inverse>>)
try_inverse(A) ==
  do_inverse4(Cofactors(ColumnMajor(A)),
              Determinant(ColumnMajor(A), Cofactors(ColumnMajor(A))))

\* Matrix4 * Matrix4, every entry accumulated over k = 0..3 in this order
Mat4Mul(A, B) ==
  [r \in 1..4 |-> [c \in 1..4 |->
     FAdd(FAdd(FAdd(FMul(A[r][1], B[1][c]), FMul(A[r][2], B[2][c])),
               FMul(A[r][3], B[3][c])), FMul(A[r][4], B[4][c]))]]

RECURSIVE Flatten(_)
Flatten(ss) == IF ss = <<>> THEN <<>> ELSE Head(ss) \o Flatten(Tail(ss))

\* itertools' multi_cartesian_product over the ranges 0..n for n in sizes:
\* the tuples in the order the iterator yields them (the first range is
\* advanced only when all the later ones are exhausted)
RECURSIVE MultiCartesianProduct(_)
MultiCartesianProduct(sizes) ==
  IF sizes = <<>> THEN << <<>> >>
  ELSE LET rest == MultiCartesianProduct(Tail(sizes))
       IN Flatten([x \in 1..Head(sizes) |->
                     [t \in 1..Len(rest) |-> <<x - 1>> \o rest[t]]])

\* ------------------------------------------------------------------------
\* src/src/sampler: a sampler is [kind, utype, mode, cval]
\* ------------------------------------------------------------------------

\* the value of an integral element, as an integer
IntOf(a) == a[1] * 2^a[2]

\* `as_()` from T to the element type U
AsU(utype, t) == IF utype = "f32" THEN t ELSE Norm(AsInt(t), 0)

\* U's multiplication and addition
UMul(utype, a, b) ==
  IF utype = "f32" THEN FMul(a, b) ELSE Norm(IntOf(a) * IntOf(b), 0)

UAdd(utype, a, b) ==
  IF utype = "f32" THEN FAdd(a, b) ELSE Norm(IntOf(a) + IntOf(b), 0)

get_sampling_mode(s) == s.mode

get_cval(s) == s.cval

\* ReSample::apply_sampling_mode: under Nearest every entry of column i is
\* clamped into [0, in_shape[i] - 1]
apply_sampling_mode(s, in_im, in_coords) ==
  LET in_shape == in_im.shape
      caps == << F(in_shape[1] - 1), F(in_shape[2] - 1), F(in_shape[3] - 1) >>
  IN IF get_sampling_mode(s) = "Constant" THEN in_coords
     ELSE [n |-> in_coords.n,
           d |-> [q \in 1..Len(in_coords.d) |->
                    Clamp(in_coords.d[q], Zero, caps[((q - 1) \div in_coords.n) + 1])]]

\* ReSample::get_val, as the samplers call it: with usize indices
get_val(s, im, x, y, z) ==
  IF x < 0 \/ y < 0 \/ z < 0 THEN get_cval(s)
  ELSE LET v == ArrGet(im, <<x, y, z>>)
       IN IF v # <<>> THEN v[1] ELSE get_cval(s)

\* one pass of NearestNeighbor::sample's loop: row i of the ceiled coordinates
NNValue(s, in_im, cc, cu, i) ==
  LET x == At(cc, i, 0)
      y == At(cc, i, 1)
      z == At(cc, i, 2)
      x_upper == F(in_im.shape[1])
      y_upper == F(in_im.shape[2])
      z_upper == F(in_im.shape[3])
  IN IF \/ FLt(x, Zero) \/ FLt(y, Zero) \/ FLt(z, Zero)
        \/ FGt(x, x_upper) \/ FGt(y, y_upper) \/ FGt(z, z_upper)
     THEN get_cval(s)
     ELSE get_val(s, in_im, At(cu, i, 0), At(cu, i, 1), At(cu, i, 2))

\* the values pushed by the loop, for the ceiled coordinates cc and their
\* usize casts cu
NNValues(s, in_im, cc, cu) ==
  [i \in 1..cc.n |-> NNValue(s, in_im, cc, cu, i - 1)]

NNSample(s, in_im, in_coords, out_shape) ==
  FromShapeVec(out_shape,
    NNValues(s, in_im,
             MapCeil(apply_sampling_mode(s, in_im, in_coords)),
             MapAsUsize(MapCeil(apply_sampling_mode(s, in_im, in_coords)))))

\* one pass of TriLinear::sample's loop: row i
TriValue(s, in_im, c, c0, c1, c0u, c1u, i) ==
  LET u == s.utype
      x == At(c, i, 0)
      y == At(c, i, 1)
      z == At(c, i, 2)
      x_upper == F(in_im.shape[1])
      y_upper == F(in_im.shape[2])
      z_upper == F(in_im.shape[3])
      x0 == At(c0, i, 0)
      y0 == At(c0, i, 1)
      z0 == At(c0, i, 2)
      x1 == At(c1, i, 0)
      y1 == At(c1, i, 1)
      z1 == At(c1, i, 2)
      x0_u == At(c0u, i, 0)
      y0_u == At(c0u, i, 1)
      z0_u == At(c0u, i, 2)
      x1_u == At(c1u, i, 0)
      y1_u == At(c1u, i, 1)
      z1_u == At(c1u, i, 2)
      Ia == get_val(s, in_im, x0_u, y0_u, z0_u)
      Ib == get_val(s, in_im, x0_u, y0_u, z1_u)
      Ic == get_val(s, in_im, x0_u, y1_u, z0_u)
      Id == get_val(s, in_im, x0_u, y1_u, z1_u)
      Ie == get_val(s, in_im, x1_u, y0_u, z0_u)
      If == get_val(s, in_im, x1_u, y0_u, z1_u)
      Ig == get_val(s, in_im, x1_u, y1_u, z0_u)
      Ih == get_val(s, in_im, x1_u, y1_u, z1_u)
      wa == AsU(u, FMul(FMul(FSub(x1, x), FSub(y1, y)), FSub(z1, z)))
      wb == AsU(u, FMul(FMul(FSub(x1, x), FSub(y1, y)), FSub(z, z0)))
      wc == AsU(u, FMul(FMul(FSub(x1, x), FSub(y, y0)), FSub(z1, z)))
      wd == AsU(u, FMul(FMul(FSub(x1, x), FSub(y, y0)), FSub(z, z0)))
      we == AsU(u, FMul(FMul(FSub(x, x0), FSub(y1, y)), FSub(z1, z)))
      wf == AsU(u, FMul(FMul(FSub(x, x0), FSub(y1, y)), FSub(z, z0)))
      wg == AsU(u, FMul(FMul(FSub(x, x0), FSub(y, y0)), FSub(z1, z)))
      wh == AsU(u, FMul(FMul(FSub(x, x0), FSub(y, y0)), FSub(z, z0)))
  IN IF \/ FLt(x, Zero) \/ FLt(y, Zero) \/ FLt(z, Zero)
        \/ FGt(x, x_upper) \/ FGt(y, y_upper) \/ FGt(z, z_upper)
     THEN get_cval(s)
     ELSE UAdd(u, UAdd(u, UAdd(u, UAdd(u, UAdd(u, UAdd(u, UAdd(u,
            UMul(u, wa, Ia), UMul(u, wb, Ib)), UMul(u, wc, Ic)),
            UMul(u, wd, Id)), UMul(u, we, Ie)), UMul(u, wf, If)),
            UMul(u, wg, Ig)), UMul(u, wh, Ih))

\* the values pushed by the loop, for the coordinates c, their floors c0 and
\* c1 = c0 + 1
TriValues(s, in_im, c, c0, c1) ==
  [i \in 1..c.n |->
     TriValue(s, in_im, c, c0, c1, MapAsUsize(c0), MapAsUsize(c1), i - 1)]

\* the sampling proper, after apply_sampling_mode has rewritten in_coords
TriSampleAt(s, in_im, c, out_shape) ==
  FromShapeVec(out_shape,
    TriValues(s, in_im, c, MapFloor(c), MapAddOne(MapFloor(c))))

TriSample(s, in_im, in_coords, out_shape) ==
  TriSampleAt(s, in_im, apply_sampling_mode(s, in_im, in_coords), out_shape)

\* ReSample::sample, dispatched on the sampler's variant
Sample(s, in_im, in_coords, out_shape) ==
  IF s.kind = "NearestNeighbor"
  THEN NNSample(s, in_im, in_coords, out_shape)
  ELSE TriSample(s, in_im, in_coords, out_shape)

\* ------------------------------------------------------------------------
\* src/src/lib.rs: the entry points.  A result carries, beside Ok / Err, what
\* the call did on the way: whether the sampler was invoked, the compound
\* affine, the normalised volume and the inferred grid.
\* ------------------------------------------------------------------------

\* what resample_from_to returns for the sampler's result r
FromToResult(r, compound_affine) ==
  IF r.ok
  THEN [ok |-> TRUE, val |-> r.val, sampled |-> TRUE,
        compound |-> compound_affine]
  ELSE [ok |-> FALSE, err |-> r.err, sampled |-> TRUE]

\* resample_from_to once the compound affine is known: the indices of
\* out_shape are mapped through it and sampled
SampleThrough(in_im, compound_affine, out_shape, s) ==
  FromToResult(
    Sample(s, in_im,
           apply_affine(compound_affine,
             MapUsizeToT(FromRowSlice(Flatten(MultiCartesianProduct(out_shape))))),
           out_shape),
    compound_affine)

\* resample_from_to after try_inverse
FromToWithInverse(in_im, inv_in_affine, out_shape, out_affine, s) ==
  IF inv_in_affine = <<>>
  THEN [ok |-> FALSE, err |-> "no valid matrix inverse found for in_affine",
        sampled |-> FALSE]
  ELSE SampleThrough(in_im, Mat4Mul(inv_in_affine[1], out_affine), out_shape, s)

resample_from_to(in_im, in_affine, out_shape, out_affine, s) ==
  FromToWithInverse(in_im, try_inverse(in_affine), out_shape, out_affine, s)

\* sanitize_im_shape with the singleton axis put first instead of last
sanitize_im_shape_leading(in_im) ==
  LET shape == in_im.shape
  IN IF Len(shape) = 2
     THEN [ok |-> TRUE, val |-> ToShape(in_im, <<1, shape[1], shape[2]>>)]
     ELSE IF Len(shape) = 3
     THEN [ok |-> TRUE, val |-> in_im]
     ELSE [ok |-> FALSE, err |-> "invalid shape"]

sanitize_im_shape(in_im) ==
  LET shape == in_im.shape
  IN IF Len(shape) = 2
     THEN [ok |-> TRUE, val |-> ToShape(in_im, <<shape[1], shape[2], 1>>)]
     ELSE IF Len(shape) = 3
     THEN [ok |-> TRUE, val |-> in_im]
     ELSE [ok |-> FALSE, err |-> "invalid shape"]

\* what resample_to_output returns for resample_from_to's result r on the
\* grid g
ToOutputResult(r, g, in_im) ==
  IF r.ok
  THEN [ok |-> TRUE, val |-> r.val, out_affine |-> g[2],
        sampled |-> r.sampled, grid |-> <<g>>, in_im |-> in_im]
  ELSE [ok |-> FALSE, err |-> r.err, sampled |-> r.sampled,
        grid |-> <<g>>, in_im |-> in_im]

\* resample_to_output once the grid g = (out_shape, out_affine) is known
ToOutputOnGrid(in_im, in_affine, g, s) ==
  ToOutputResult(resample_from_to(in_im, in_affine, g[1], g[2], s), g, in_im)

\* resample_to_output after sanitize_im_shape
ToOutputSanitized(san, in_affine, voxel_sizes, s) ==
  IF ~san.ok
  THEN [ok |-> FALSE, err |-> san.err, sampled |-> FALSE, grid |-> <<>>]
  ELSE ToOutputOnGrid(san.val, in_affine,
                      vox2out_vox(san.val.shape, in_affine, voxel_sizes), s)

resample_to_output(in_im0, in_affine, voxel_sizes, s) ==
  ToOutputSanitized(sanitize_im_shape(in_im0), in_affine, voxel_sizes, s)

\* ------------------------------------------------------------------------
\* The inputs the calls are made with
\* ------------------------------------------------------------------------

\* the largest dimension of an input volume
MaxDim == 2

\* a 4x4 matrix of f32 from integer rows
Mat(rows) == [r \in 1..4 |-> [c \in 1..4 |-> F(rows[r][c])]]

AffIdentity == Mat(<< <<1, 0, 0, 0>>, <<0, 1, 0, 0>>, <<0, 0, 1, 0>>, <<0, 0, 0, 1>> >>)

\* a translation by (1/2, 0, -1/2)
AffShift ==
  [AffIdentity EXCEPT ![1] = [@ EXCEPT ![4] = Frac(1, 1)],
                      ![3] = [@ EXCEPT ![4] = Frac(-1, 1)]]

\* the first two axes exchanged
AffSwap == Mat(<< <<0, 1, 0, 0>>, <<1, 0, 0, 0>>, <<0, 0, 1, 0>>, <<0, 0, 0, 1>> >>)

AffScale == Mat(<< <<2, 0, 0, 1>>, <<0, 1, 0, 0>>, <<0, 0, 1, 0>>, <<0, 0, 0, 1>> >>)

\* an oblique grid: the first axis sheared along the second
AffShear == Mat(<< <<1, -3, 0, 0>>, <<0, 7, 0, 0>>, <<0, 0, 1, 0>>, <<0, 0, 0, 1>> >>)

\* two equal rows: not invertible
AffSingular == Mat(<< <<1, 1, 0, 1>>, <<1, 1, 0, 0>>, <<0, 0, 1, 0>>, <<0, 0, 0, 1>> >>)

\* a zero column: not invertible
AffFlat == Mat(<< <<1, 0, 0, 0>>, <<0, 0, 0, 2>>, <<0, 0, 1, 0>>, <<0, 0, 0, 1>> >>)

\* the f32 literal n/d, such as 0.1: the f32 nearest to the quotient
Dec(n, d) == FDiv(F(n), F(d))

\* voxels of 0.1 mm on every axis
AffFine ==
  [r \in 1..4 |-> [c \in 1..4 |->
     IF r = c THEN (IF r = 4 THEN One ELSE Dec(1, 10)) ELSE Zero]]

\* the third row of the linear part is the sum of the first two: not
\* invertible.  The entries are multiples of 1/8.
AffDependent ==
  [r \in 1..4 |-> [c \in 1..4 |->
     Frac(<< <<444, 340, 385, 0>>, <<110, -151, 340, 0>>,
             <<554, 189, 725, 0>>, <<0, 0, 0, 8>> >>[r][c], 3)]]

Affines == {AffIdentity, AffShift, AffSwap, AffShear, AffSingular, AffFlat,
            AffDependent}

GridAffines == {AffIdentity, AffShift, AffSwap, AffScale, AffShear, AffSingular,
                AffFine}

\* the p-th voxel (p from 0): distinct values with unequal steps
VoxelValue(p) == F(10 + 3 * p + ((p * p) % 3))

\* the array of a shape, of any rank
ArrayOf(shape) ==
  [shape |-> shape, data |-> [p \in 1..Prod(shape) |-> VoxelValue(p - 1)]]

Dims == {1, MaxDim}

Volumes == {ArrayOf(<<a, b, c>>) : a \in Dims, b \in Dims, c \in Dims}

Kinds == {"NearestNeighbor", "TriLinear"}

UTypes == {"f32", "i32"}

Modes == {"Constant", "Nearest"}

\* the fill values of an element type; only a float has a NaN
CVals(utype) == IF utype = "f32" THEN {Zero, F(9), NaN} ELSE {Zero, F(9)}

\* coordinates from -1 to MaxDim + 1/2 in steps of 1/2
CoordVals == {Frac(k, 1) : k \in (-2)..(2 * MaxDim + 1)}

InnerVals == {Zero, Frac(1, 1), One}

\* the coordinate triples with at most one axis outside InnerVals
CoordTriples ==
  {p \in CoordVals \X CoordVals \X CoordVals :
     Cardinality({a \in 1..3 : p[a] \notin InnerVals}) <= 1}

SomeRows == << <<One, Zero, Zero>>, <<Frac(-1, 1), Zero, Zero>>,
               <<Frac(1, 1), Frac(1, 1), Zero>> >>

\* coordinate sets of 0..3 rows, as row slices
RowSlices == {Flatten(SubSeq(SomeRows, 1, n)) : n \in 0..3}

SampleShapes == {<<0, 1, 1>>, <<1, 1, 1>>, <<2, 1, 1>>, <<1, 2, 1>>, <<3>>,
                 <<1, 1, 3>>, <<2, 2, 1>>}

\* <<coordinates, out_shape>> of the calls of sample
SampleInputs ==
  {<<FromRowSlice(p), <<1, 1, 1>>>> : p \in CoordTriples}
    \cup {<<FromRowSlice(r), sh>> : r \in RowSlices, sh \in SampleShapes}

FromToVolumes == {ArrayOf(<<2, 2, 1>>), ArrayOf(<<2, 1, 2>>)}

FromToShapes == {<<2, 2, 1>>, <<2, 1, 2>>, <<0, 2, 1>>}

OutAffines == {AffIdentity, AffSwap, AffShear}

\* the arrays resample_to_output is called with: ranks 0 to 4
Images == {ArrayOf(<<>>), ArrayOf(<<2>>), ArrayOf(<<2, 2>>), ArrayOf(<<1, 2>>),
           ArrayOf(<<2, 2, 1>>), ArrayOf(<<1, 1, 2>>), ArrayOf(<<1, 1, 1, 2>>)}

ToOutputAffines == {AffIdentity, AffScale, AffSingular}

\* voxel sizes; a size of zero (a division by zero) is left out
ToOutputSizes ==
  { <<One, One, One>>, <<Frac(1, 1), One, F(2)>>,
    <<One, F(-1), One>>, <<F(-1), F(-1), F(-1)>> }

SizeVals == {F(-1), Dec(2, 100), Frac(1, 1), One, F(2), F(3)}

GridSizes == SizeVals \X SizeVals \X SizeVals

GridShapes == {<<a, b, c>> : a \in Dims, b \in Dims, c \in Dims}

\* the largest dimension get_corners is called with
MaxCorner == 5

\* the affine of test_apply_affine
AffTest ==
  << <<Zero, Zero, Dec(67, 10), Dec(502, 10)>>,
     <<Zero, Dec(16, 10), Zero, F(-192)>>,
     <<Dec(-16, 10), Zero, Zero, Dec(1779, 10)>>,
     <<Zero, Zero, Zero, One>> >>

ApplyAffines == {AffShear, AffScale, AffShift, AffFine, AffTest}

\* the largest entry of a point apply_affine is called with
MaxPoint == 2

Points == {<<F(x), F(y), F(z)>> : x \in 0..MaxPoint, y \in 0..MaxPoint,
                                  z \in 0..MaxPoint}

\* p1 + p2, entry by entry
PointSum(p1, p2) == [a \in 1..3 |-> FAdd(p1[a], p2[a])]

\* the shapes get_corners is called with, the one of test_get_corners among
\* them; a dimension of 0 underflows in `dim - 1` and is no valid input
CornerShapes ==
  {<<a, b, c>> : a \in 1..MaxCorner, b \in 1..MaxCorner, c \in 1..MaxCorner}
    \cup {<<256, 230, 16>>}

\* ------------------------------------------------------------------------
\* The state: the sampler instance, the last operation and what it returned
\* ------------------------------------------------------------------------

VARIABLES sampler, call, ret

vars == <<sampler, call, ret>>

\* NearestNeighbor::default() or TriLinear::default(), for an element type
Init ==
  /\ sampler \in {[kind |-> k, utype |-> u, mode |-> "Constant", cval |-> Zero] :
                    k \in Kinds, u \in UTypes}
  /\ call = [op |-> "none"]
  /\ ret = [ok |-> TRUE]

\* No call is in flight: a setter takes the sampler by &mut, a call borrows it
Idle == call.op = "none"

set_sampling_mode ==
  \E mode \in Modes :
    /\ Idle
    /\ sampler' = [sampler EXCEPT !.mode = mode]
    /\ UNCHANGED <<call, ret>>

set_cval ==
  \E cval \in CVals(sampler.utype) :
    /\ Idle
    /\ sampler' = [sampler EXCEPT !.cval = cval]
    /\ UNCHANGED <<call, ret>>

CallSample ==
  \E in_im \in Volumes, inp \in SampleInputs :
    /\ Idle
    /\ call' = [op |-> "sample", in_im |-> in_im, in_coords |-> inp[1],
                out_shape |-> inp[2]]
    /\ ret' = Sample(sampler, in_im, inp[1], inp[2])
    /\ UNCHANGED sampler

CallResampleFromTo ==
  \E in_im \in FromToVolumes, in_affine \in Affines,
     out_shape \in FromToShapes, out_affine \in OutAffines :
    /\ Idle
    /\ call' = [op |-> "resample_from_to", in_im |-> in_im,
                in_affine |-> in_affine, out_shape |-> out_shape,
                out_affine |-> out_affine]
    /\ ret' = resample_from_to(in_im, in_affine, out_shape, out_affine, sampler)
    /\ UNCHANGED sampler

CallResampleToOutput ==
  \E in_im \in Images, in_affine \in ToOutputAffines,
     voxel_sizes \in ToOutputSizes :
    /\ Idle
    /\ call' = [op |-> "resample_to_output", in_im |-> in_im,
                in_affine |-> in_affine, voxel_sizes |-> voxel_sizes]
    /\ ret' = resample_to_output(in_im, in_affine, voxel_sizes, sampler)
    /\ UNCHANGED sampler

CallVox2OutVox ==
  \E in_shape \in GridShapes, in_affine \in GridAffines,
     voxel_sizes \in GridSizes :
    /\ Idle
    /\ call' = [op |-> "vox2out_vox", in_shape |-> in_shape,
                in_affine |-> in_affine, voxel_sizes |-> voxel_sizes]
    /\ ret' = [ok |-> TRUE, val |-> vox2out_vox(in_shape, in_affine, voxel_sizes)]
    /\ UNCHANGED sampler

CallGetCorners ==
  \E in_shape \in CornerShapes :
    /\ Idle
    /\ call' = [op |-> "get_corners", in_shape |-> in_shape]
    /\ ret' = [ok |-> TRUE, val |-> get_corners(in_shape)]
    /\ UNCHANGED sampler

\* apply_affine on the four points p1, p2, p1 + p2 and 0, in this row order
CallApplyAffine ==
  \E affine \in ApplyAffines, p1 \in Points, p2 \in Points :
    /\ Idle
    /\ call' = [op |-> "apply_affine", affine |-> affine, p1 |-> p1, p2 |-> p2,
                pts |-> FromRowSlice(p1 \o p2 \o PointSum(p1, p2)
                                        \o <<Zero, Zero, Zero>>)]
    /\ ret' = [ok |-> TRUE,
               val |-> apply_affine(affine,
                         FromRowSlice(p1 \o p2 \o PointSum(p1, p2)
                                         \o <<Zero, Zero, Zero>>))]
    /\ UNCHANGED sampler

\* the caller takes the result; the sampler is free again
Return ==
  /\ ~Idle
  /\ call' = [op |-> "none"]
  /\ ret' = [ok |-> TRUE]
  /\ UNCHANGED sampler

Next ==
  \/ set_sampling_mode
  \/ set_cval
  \/ CallSample
  \/ CallResampleFromTo
  \/ CallResampleToOutput
  \/ CallVox2OutVox
  \/ CallGetCorners
  \/ CallApplyAffine
  \/ Return

Spec == Init /\ [][Next]_vars

\* the samplers called directly
NextSample == set_sampling_mode \/ set_cval \/ CallSample \/ Return

SpecSample == Init /\ [][NextSample]_vars

NextFromTo == set_sampling_mode \/ set_cval \/ CallResampleFromTo \/ Return

SpecFromTo == Init /\ [][NextFromTo]_vars

NextToOutput == set_sampling_mode \/ set_cval \/ CallResampleToOutput \/ Return

SpecToOutput == Init /\ [][NextToOutput]_vars

\* grid inference alone; it reads no sampler
InitGrid == Init /\ sampler.kind = "NearestNeighbor" /\ sampler.utype = "f32"

NextGrid == CallVox2OutVox \/ Return

SpecGrid == InitGrid /\ [][NextGrid]_vars

\* the corners of a shape alone
NextCorners == CallGetCorners \/ Return

SpecCorners == InitGrid /\ [][NextCorners]_vars

\* the transformation of points alone
NextApply == CallApplyAffine \/ Return

SpecApply == InitGrid /\ [][NextApply]_vars

\* ------------------------------------------------------------------------
\* Properties
\* ------------------------------------------------------------------------

\* the voxel indices of a rank-3 shape
Indices3(shape) ==
  {<<i, j, k>> : i \in 0..(shape[1] - 1), j \in 0..(shape[2] - 1),
                 k \in 0..(shape[3] - 1)}

\* the value the sampler s gives for the one coordinate compound * idx
PointValue(s, in_im, compound, idx) ==
  LET p == apply_affine(compound, MapUsizeToT(FromRowSlice(idx)))
  IN Sample(s, in_im, p, <<1, 1, 1>>).val.data[1]

\* 8^3 times the determinant of the linear part of an affine whose entries
\* are multiples of 1/8, in exact integer arithmetic
ExactDet(A) ==
  LET v(r, c) == A[r][c][1] * 2^(A[r][c][2] + 3)
  IN   v(1, 1) * (v(2, 2) * v(3, 3) - v(2, 3) * v(3, 2))
     - v(1, 2) * (v(2, 1) * v(3, 3) - v(2, 3) * v(3, 1))
     + v(1, 3) * (v(2, 1) * v(3, 2) - v(2, 2) * v(3, 1))

\* the affine has no inverse (its bottom row is 0 0 0 1)
Singular(A) == ExactDet(A) = 0

\* C1: an Ok result of resample_from_to has the shape out_shape, and its
\* element at every index (i, j, k) is the value the sampler gives for the
\* coordinate compound * (i, j, k), compound being inverse(in_affine) *
\* out_affine: the enumeration of the indices and the reshape of the values
\* agree, nothing is transposed or permuted.  Every invertible in_affine
\* gives an Ok result.
C1_SameOrder ==
  call.op = "resample_from_to" =>
    /\ ~Singular(call.in_affine) => ret.ok
    /\ ret.ok =>
         /\ ret.val.shape = call.out_shape
         /\ Len(ret.val.data) = Prod(call.out_shape)
         /\ ret.compound = Mat4Mul(try_inverse(call.in_affine)[1], call.out_affine)
         /\ \A idx \in Indices3(call.out_shape) :
              ArrGet(ret.val, idx)
                = <<PointValue(sampler, call.in_im, ret.compound, idx)>>

\* a resampling onto a 2 x 1 x 2 grid whose voxels (0,0,1) and (1,0,0) differ
C1_Witness ==
  /\ call.op = "resample_from_to"
  /\ ret.ok
  /\ call.out_shape = <<2, 1, 2>>
  /\ ~Singular(call.in_affine)
  /\ ArrGet(ret.val, <<0, 0, 1>>) # ArrGet(ret.val, <<1, 0, 0>>)

\* C2: resample_from_to returns an error on every in_affine that has no
\* inverse, without invoking the sampler and without returning a volume.
C2_SingularRejected ==
  (call.op = "resample_from_to" /\ Singular(call.in_affine)) =>
    (~ret.ok /\ ~ret.sampled)

\* C3: resample_to_output takes a rank-2 input of shape (a, b) as the volume
\* of shape (a, b, 1) with the same elements in the same order, a rank-3
\* input unchanged, and answers every other rank with the error "invalid
\* shape" before any grid is inferred or any voxel sampled.
C3_Ranks ==
  call.op = "resample_to_output" =>
    LET shape == call.in_im.shape
    IN CASE Len(shape) = 2 ->
              /\ ret.grid # <<>>
              /\ ret.in_im.shape = <<shape[1], shape[2], 1>>
              /\ \A i \in 0..(shape[1] - 1), j \in 0..(shape[2] - 1) :
                   ArrGet(ret.in_im, <<i, j, 0>>) = ArrGet(call.in_im, <<i, j>>)
         [] Len(shape) = 3 ->
              /\ ret.grid # <<>>
              /\ ret.in_im = call.in_im
         [] OTHER ->
              /\ ~ret.ok
              /\ ret.err = "invalid shape"
              /\ ret.grid = <<>>
              /\ ~ret.sampled

\* a 1 x 2 image resampled to an Ok result
C3_Witness ==
  /\ call.op = "resample_to_output"
  /\ call.in_im.shape = <<1, 2>>
  /\ ret.ok
  /\ ret.in_im.shape = <<1, 2, 1>>

\* the a-coordinates (a from 1) of the 8 corners of the input box, mapped
\* through the affine one corner at a time
CornerCoords(in_shape, in_affine, a) ==
  {apply_affine(in_affine, MapUsizeToT(FromRowSlice(c))).d[a] :
     c \in {0, in_shape[1] - 1} \X {0, in_shape[2] - 1} \X {0, in_shape[3] - 1}}

\* the least / greatest of a set of f32
SetMin(S) == CHOOSE m \in S : \A x \in S : ~FLt(x, m)

SetMax(S) == CHOOSE m \in S : \A x \in S : ~FGt(x, m)

\* C4: for voxel sizes > 0, vox2out_vox returns out_shape[a] =
\* ceil((out_max[a] - out_min[a]) / voxel_size[a]) + 1 and the affine
\* diagonal(voxel_size) with translation out_min and bottom row 0 0 0 1, and
\* the last grid point of every axis, out_min[a] + (out_shape[a] - 1) *
\* voxel_size[a], is not below out_max[a].
C4_GridCovers ==
  (call.op = "vox2out_vox" /\ \A a \in 1..3 : FGt(call.voxel_sizes[a], Zero)) =>
    LET out_shape  == ret.val[1]
        out_affine == ret.val[2]
        mn(a) == SetMin(CornerCoords(call.in_shape, call.in_affine, a))
        mx(a) == SetMax(CornerCoords(call.in_shape, call.in_affine, a))
    IN /\ \A a \in 1..3 :
            /\ out_shape[a]
                 = AsUsize(FCeil(FDiv(FSub(mx(a), mn(a)), call.voxel_sizes[a]))) + 1
            /\ out_affine[a][4] = mn(a)
            /\ ~FLt(FAdd(mn(a), FMul(F(out_shape[a] - 1), call.voxel_sizes[a])),
                    mx(a))
       /\ \A r \in 1..3, c \in 1..3 :
            out_affine[r][c] = IF r = c THEN call.voxel_sizes[r] ELSE Zero
       /\ out_affine[4] = <<Zero, Zero, Zero, One>>

\* C5: resample_to_output, and the grid inference in it, fails when a voxel
\* size is <= 0 or an extent of the inferred out_shape is <= 0: no grid, no
\* affine and no volume is returned then.
C5_NonPositiveRejected ==
  (call.op = "resample_to_output" /\ Len(call.in_im.shape) \in {2, 3}) =>
    /\ (\E a \in 1..3 : ~FGt(call.voxel_sizes[a], Zero)) =>
         (~ret.ok /\ ret.grid = <<>>)
    /\ (ret.grid # <<>> /\ \E a \in 1..3 : ret.grid[1][1][a] <= 0) => ~ret.ok

\* C6: sample returns an error exactly when the number of coordinate triples
\* differs from product(out_shape); otherwise it returns product(out_shape)
\* values under the shape out_shape, whatever the coordinates are.
C6_ShapeError ==
  call.op = "sample" =>
    /\ ~ret.ok <=> call.in_coords.n # Prod(call.out_shape)
    /\ ~ret.ok =>
         ret.err = "number of elements is not compatible with out_shape shape"
    /\ ret.ok =>
         /\ ret.val.shape = call.out_shape
         /\ Len(ret.val.data) = Prod(call.out_shape)

\* an Ok result for a coordinate below zero
C6_Witness ==
  /\ call.op = "sample"
  /\ ret.ok
  /\ call.in_coords.n = 1
  /\ FLt(call.in_coords.d[1], Zero)

\* row i (from 0) of the coordinates lies outside [0, dim) on some axis
Outside(in_im, c, i) ==
  \E a \in 0..2 :
    \/ FLt(At(c, i, a), Zero)
    \/ ~FLt(At(c, i, a), F(in_im.shape[a + 1]))

\* C7: under Constant mode every output voxel whose coordinate lies outside
\* [0, dim) on some axis equals the fill value.
C7_ConstantFill ==
  (call.op = "sample" /\ sampler.mode = "Constant" /\ ret.ok) =>
    \A i \in 0..(call.in_coords.n - 1) :
      Outside(call.in_im, call.in_coords, i) =>
        ret.val.data[i + 1] = sampler.cval

\* x cut into [0, cap]
Clamped(x, cap) == IF FLt(x, Zero) THEN Zero ELSE IF FLt(cap, x) THEN cap ELSE x

\* C8: under Constant mode apply_sampling_mode leaves the coordinates as they
\* are; under Nearest mode it cuts every coordinate into [0, dim - 1] of its
\* axis, and the result of sample is the same for every fill value.
C8_NearestIgnoresFill ==
  (call.op = "sample" /\ ret.ok) =>
    LET c == apply_sampling_mode(sampler, call.in_im, call.in_coords)
    IN /\ sampler.mode = "Constant" => c = call.in_coords
       /\ sampler.mode = "Nearest" =>
            /\ \A i \in 0..(c.n - 1), a \in 0..2 :
                 At(c, i, a) = Clamped(At(call.in_coords, i, a),
                                       F(call.in_im.shape[a + 1] - 1))
            /\ \A cv \in CVals(sampler.utype) :
                 Sample([sampler EXCEPT !.cval = cv], call.in_im,
                        call.in_coords, call.out_shape) = ret

\* C9: resampling a volume onto its own shape and affine with
\* NearestNeighbor under Nearest mode returns the volume.
C9_Identity ==
  ( /\ call.op = "resample_from_to"
    /\ sampler.kind = "NearestNeighbor"
    /\ sampler.mode = "Nearest"
    /\ call.out_affine = call.in_affine
    /\ call.out_shape = call.in_im.shape
    /\ ~Singular(call.in_affine) ) =>
    (ret.ok /\ ret.val = call.in_im)

\* the f32 is an integer from 0 to dim - 1
IsIndex(x, dim) == ~IsNaN(x) /\ x[2] >= 0 /\ ~FLt(x, Zero) /\ FLt(x, F(dim))

\* C10: TriLinear, at a coordinate whose components are integers within the
\* volume, returns the voxel at that index, in either mode and for every
\* fill value.
C10_IntegerCoordinate ==
  (call.op = "sample" /\ sampler.kind = "TriLinear" /\ ret.ok) =>
    \A i \in 0..(call.in_coords.n - 1) :
      (\A a \in 0..2 : IsIndex(At(call.in_coords, i, a), call.in_im.shape[a + 1])) =>
        <<ret.val.data[i + 1]>>
          = ArrGet(call.in_im, [a \in 1..3 |-> AsUsize(At(call.in_coords, i, a - 1))])

\* row r (from 0) of a MatrixXx3, as a triple
Row(M, r) == <<At(M, r, 0), At(M, r, 1), At(M, r, 2)>>

\* C11: for a shape with all dimensions >= 1 get_corners returns exactly 8
\* rows; the row for the choice (i, j, k) of 0 (low end) or 1 (dim - 1) on
\* the three axes stands at position 4i + 2j + k, so every choice occurs
\* exactly once with the first axis slowest and the last fastest; when every
\* dimension is >= 2 the 8 rows are pairwise distinct.
C11_Corners ==
  call.op = "get_corners" =>
    LET sh == call.in_shape
        M  == ret.val
    IN /\ M.n = 8
       /\ Len(M.d) = 24
       /\ \A i \in 0..1, j \in 0..1, k \in 0..1 :
            Row(M, 4 * i + 2 * j + k)
              = <<i * (sh[1] - 1), j * (sh[2] - 1), k * (sh[3] - 1)>>
       /\ (\A a \in 1..3 : sh[a] >= 2) =>
            Cardinality({Row(M, r) : r \in 0..7}) = 8

C11_Witness ==
  /\ call.op = "get_corners"
  /\ call.in_shape = <<2, 3, 5>>
  /\ Row(ret.val, 3) = <<0, 2, 4>>
  /\ Row(ret.val, 4) = <<1, 0, 0>>

\* apply_affine on the single point p
RowAlone(affine, p) == Row(apply_affine(affine, FromRowSlice(p)), 0)

\* an f32 that is an integer
IsInt(a) == ~IsNaN(a) /\ a[2] >= 0

\* the linear part and the translation of the affine are integers
IntegerAffine(affine) ==
  \A r \in 1..3, c \in 1..4 : IsInt(affine[r][c])

\* linear * p + translation in integer arithmetic, for integer entries
ExactPoint(affine, p) ==
  [j \in 1..3 |->
     F(IntOf(affine[j][1]) * IntOf(p[1]) + IntOf(affine[j][2]) * IntOf(p[2])
       + IntOf(affine[j][3]) * IntOf(p[3]) + IntOf(affine[j][4]))]

\* apply(A, p1 + p2) - apply(A, 0)
\*   = (apply(A, p1) - apply(A, 0)) + (apply(A, p2) - apply(A, 0)),
\* on the rows of the result R = apply(A, <<p1, p2, p1 + p2, 0>>)
LinearOn(R) ==
  \A a \in 1..3 :
    FSub(Row(R, 2)[a], Row(R, 3)[a])
      = FAdd(FSub(Row(R, 0)[a], Row(R, 3)[a]), FSub(Row(R, 1)[a], Row(R, 3)[a]))

\* every row of the result is the image of the same row of pts, whatever the
\* other rows are
RowWise(affine, pts, R) ==
  /\ R.n = pts.n
  /\ \A r \in 0..(pts.n - 1) : Row(R, r) = RowAlone(affine, Row(pts, r))

\* C12 as stated: apply_affine maps every row p, independently of the others
\* and in order, to linear * p + translation, and is affine-linear for all
\* p1, p2: apply(A, p1 + p2) - apply(A, 0) = (apply(A, p1) - apply(A, 0)) +
\* (apply(A, p2) - apply(A, 0)).
C12_AffineLinear ==
  call.op = "apply_affine" =>
    /\ RowWise(call.affine, call.pts, ret.val)
    /\ LinearOn(ret.val)

\* C12 amended: apply_affine maps every row independently of the others and
\* in order; when the entries of the affine and of the points are integers
\* small enough for T to hold every product and sum exactly, the row is
\* exactly linear * p + translation and the affine-linearity identity holds.
C12_ExactLinear ==
  call.op = "apply_affine" =>
    /\ RowWise(call.affine, call.pts, ret.val)
    /\ IntegerAffine(call.affine) =>
         /\ \A r \in 0..3 :
              Row(ret.val, r) = ExactPoint(call.affine, Row(call.pts, r))
         /\ LinearOn(ret.val)

C12_Witness ==
  /\ call.op = "apply_affine"
  /\ call.affine = AffShear
  /\ call.p1 = <<One, F(2), Zero>>
  /\ call.p2 = <<Zero, One, F(2)>>
  /\ Row(ret.val, 2) = <<F(-8), F(21), F(2)>>

\* row i (from 0) of the coordinates c passes the bounds test of the samplers
InRange(in_im, c, i) ==
  \A a \in 0..2 :
    /\ ~FLt(At(c, i, a), Zero)
    /\ ~FGt(At(c, i, a), F(in_im.shape[a + 1]))

\* the weight of the corner that takes the low (0) or high (1) end on each
\* axis: the product of the distances to the opposite corner
Weight(p, lo, hi, ends) ==
  LET dist(a) == IF ends[a] = 0 THEN FSub(hi[a], p[a]) ELSE FSub(p[a], lo[a])
  IN FMul(FMul(dist(1), dist(2)), dist(3))

\* the eight corners in the order Ia .. Ih: the last axis fastest
CornerEnds ==
  << <<0, 0, 0>>, <<0, 0, 1>>, <<0, 1, 0>>, <<0, 1, 1>>,
     <<1, 0, 0>>, <<1, 0, 1>>, <<1, 1, 0>>, <<1, 1, 1>> >>

\* sum of weight * value over the first n corners, accumulated in T
RECURSIVE SumInT(_, _, _, _, _, _)
SumInT(s, in_im, p, lo, hi, n) ==
  LET ends == CornerEnds[n]
      idx  == [a \in 1..3 |-> AsUsize(IF ends[a] = 0 THEN lo[a] ELSE hi[a])]
      term == FMul(Weight(p, lo, hi, ends),
                   get_val(s, in_im, idx[1], idx[2], idx[3]))
  IN IF n = 1 THEN term ELSE FAdd(SumInT(s, in_im, p, lo, hi, n - 1), term)

\* the weighted sum at the point p, converted to the element type at the end
InterpolatedInT(s, in_im, p) ==
  LET lo == [a \in 1..3 |-> FFloor(p[a])]
      hi == [a \in 1..3 |-> FAdd(lo[a], One)]
  IN AsU(s.utype, SumInT(s, in_im, p, lo, hi, 8))

\* C13: every in-range output value of TriLinear is the sum over the 8
\* corners of weight * value, accumulated in the coordinate type and
\* converted to the element type once, after the sum; for an integer element
\* type it is the truncation of the weighted sum.
C13_AccumulateInT ==
  (call.op = "sample" /\ sampler.kind = "TriLinear" /\ ret.ok) =>
    LET c == apply_sampling_mode(sampler, call.in_im, call.in_coords)
    IN \A i \in 0..(c.n - 1) :
         InRange(call.in_im, c, i) =>
           ret.val.data[i + 1] = InterpolatedInT(sampler, call.in_im, Row(c, i))

\* C14: NearestNeighbor applies the mode policy to the coordinate, rounds
\* each of the three axes up to the next integer and returns the voxel at
\* that index when the index lies inside the volume, and the fill value
\* otherwise.
C14_CeilThenLookup ==
  (call.op = "sample" /\ sampler.kind = "NearestNeighbor" /\ ret.ok) =>
    LET c == apply_sampling_mode(sampler, call.in_im, call.in_coords)
    IN \A i \in 0..(c.n - 1) :
         LET idx == [a \in 1..3 |-> CeilInt(At(c, i, a - 1))]
         IN ret.val.data[i + 1]
              = IF InBounds(call.in_im.shape, idx)
                THEN call.in_im.data[Offset(call.in_im.shape, idx) + 1]
                ELSE sampler.cval

C14_Witness ==
  /\ call.op = "sample"
  /\ sampler.kind = "NearestNeighbor"
  /\ call.in_im = ArrayOf(<<2, 1, 1>>)
  /\ call.in_coords = FromRowSlice(<<Frac(1, 1), Zero, Zero>>)
  /\ ret.ok
  /\ ret.val.data[1] = F(14)

====
